---------------------------- MODULE Spec2Model ----------------------------
(***************************************************************************)
(* Model of the authenticated request gateway of the Airtable MCP server   *)
(* (src/main.py): the Nango credential client, the token provider, the     *)
(* query/body encoders of the tools and handle_api_request.                *)
(*                                                                         *)
(* Python values are tagged records.  A Python str is a sequence of text   *)
(* chunks (TLA+ strings), so that concatenation, f-strings, ', '.join and  *)
(* the substring test of `in` are what they are in Python, at chunk        *)
(* granularity.  Dict keys are atomic TLA+ strings.                        *)
(*                                                                         *)
(* Library behaviour assumed: requests >= 2.27 without simplejson, so that *)
(* Response.json() raises requests.exceptions.JSONDecodeError, which is    *)
(* both a RequestException and a json.JSONDecodeError.                     *)
(***************************************************************************)
EXTENDS Integers, Sequences, FiniteSets, TLC

VARIABLES
    env,          \* os.environ restricted to the four NANGO_* variables
    tokCall,      \* last direct call of the token provider and its result
    encCall,      \* last tool call handed to handle_api_request, as encoded
    inv,          \* the handle_api_request invocations (one record each)
    brokerToken,  \* the token the credential broker currently vends
    issued        \* the token the broker vended last, to any invocation

vars == <<env, tokCall, encCall, inv, brokerToken, issued>>

---------------------------------------------------------------------------
(* Python values *)

None == [t |-> "None"]
PStr(s) == [t |-> "str", s |-> s]
PInt(n) == [t |-> "int", n |-> n]
PBool(b) == [t |-> "bool", b |-> b]
PList(l) == [t |-> "list", l |-> l]
PDict(d) == [t |-> "dict", d |-> d]
EmptyDict == PDict([k \in {} |-> None])
S(x) == PStr(<<x>>)

Range(f) == {f[x] : x \in DOMAIN f}

\* bool(v): the truth value Python gives v in `if v:` and `not v`
Truthy(v) ==
    CASE v.t = "None" -> FALSE
      [] v.t = "str" -> Len(v.s) > 0
      [] v.t = "int" -> v.n # 0
      [] v.t = "bool" -> v.b
      [] v.t = "list" -> Len(v.l) > 0
      [] v.t = "dict" -> DOMAIN v.d # {}

\* outcomes of an evaluation: a value, or a raised exception with str(e)
Ok(v) == [ok |-> TRUE, val |-> v]
Raise(exc, msg) == [ok |-> FALSE, exc |-> exc, msg |-> msg]

\* type(v).__name__
TypeName(v) == IF v.t = "None" THEN "NoneType" ELSE v.t

\* needle occurs in hay as a contiguous run of chunks (str.__contains__)
SubstringOf(needle, hay) ==
    \E i \in 1..(Len(hay) - Len(needle) + 1) :
        SubSeq(hay, i, i + Len(needle) - 1) = needle

\* `key in c` for a str key
PyIn(key, c) ==
    CASE c.t = "dict" -> Ok(key \in DOMAIN c.d)
      [] c.t = "list" -> Ok(\E i \in 1..Len(c.l) : c.l[i] = S(key))
      [] c.t = "str" -> Ok(SubstringOf(<<key>>, c.s))
      [] OTHER -> Raise("TypeError", <<"argument of type '", TypeName(c), "' is not iterable">>)

\* `c[key]` for a str key
PyGetItem(c, key) ==
    CASE c.t = "dict" ->
            IF key \in DOMAIN c.d THEN Ok(c.d[key]) ELSE Raise("KeyError", <<"'", key, "'">>)
      [] c.t = "list" -> Raise("TypeError", <<"list indices must be integers or slices, not str">>)
      [] c.t = "str" -> Raise("TypeError", <<"string indices must be integers">>)
      [] OTHER -> Raise("TypeError", <<"'", TypeName(c), "' object is not subscriptable">>)

\* sep.join(names)
RECURSIVE Join(_, _)
Join(names, sep) ==
    IF Len(names) = 0 THEN <<>>
    ELSE IF Len(names) = 1 THEN <<names[1]>>
    ELSE <<names[1], sep>> \o Join(Tail(names), sep)

---------------------------------------------------------------------------
(* JSON text and Python repr of a value *)

KeyOrder ==
    <<"credentials", "access_token", "type", "foo", "error", "message", "records", "id">>

RECURSIVE Render(_, _)
RECURSIVE RenderItems(_, _, _)
RECURSIVE RenderMembers(_, _, _, _)

\* the text of v: JSON text when py = FALSE, Python's repr when py = TRUE
Render(v, py) ==
    CASE v.t = "None" -> <<IF py THEN "None" ELSE "null">>
      [] v.t = "str" -> <<IF py THEN "'" ELSE "\"">> \o v.s \o <<IF py THEN "'" ELSE "\"">>
      [] v.t = "int" -> <<ToString(v.n)>>
      [] v.t = "bool" ->
            <<IF py THEN (IF v.b THEN "True" ELSE "False")
                    ELSE (IF v.b THEN "true" ELSE "false")>>
      [] v.t = "list" -> <<"[">> \o RenderItems(v.l, py, TRUE) \o <<"]">>
      [] v.t = "dict" -> <<"{">> \o RenderMembers(v.d, KeyOrder, py, TRUE) \o <<"}">>

RenderItems(l, py, first) ==
    IF Len(l) = 0 THEN <<>>
    ELSE (IF first THEN <<>> ELSE <<", ">>) \o Render(l[1], py)
            \o RenderItems(Tail(l), py, FALSE)

RenderMembers(d, keys, py, first) ==
    IF Len(keys) = 0 THEN <<>>
    ELSE IF keys[1] \notin DOMAIN d THEN RenderMembers(d, Tail(keys), py, first)
    ELSE (IF first THEN <<>> ELSE <<", ">>)
            \o Render(S(keys[1]), py) \o <<": ">> \o Render(d[keys[1]], py)
            \o RenderMembers(d, Tail(keys), py, FALSE)

\* str(v), as an f-string formats v
PyStr(v) == IF v.t = "str" THEN v.s ELSE Render(v, TRUE)

---------------------------------------------------------------------------
(* HTTP responses as requests hands them to the program *)

\* a body whose text is the JSON text of v; .json() gives v
JsonBody(v) == [text |-> Render(v, FALSE), json |-> Ok(v)]
\* a body that is not JSON; .json() raises
TextBody(text) ==
    [text |-> text, json |-> Raise("JSONDecodeError", <<"Expecting value: line 1 column 1 (char 0)">>)]

Response(status, reason, body) == [net |-> FALSE, status |-> status, reason |-> reason, body |-> body]
\* the request raised before any response (connection error, timeout, DNS)
NetworkFailure(cause) == [net |-> TRUE, cause |-> cause]

---------------------------------------------------------------------------
(* Nango authentication: get_connection_credentials, get_airtable_token *)

EnvVars == <<"NANGO_CONNECTION_ID", "NANGO_INTEGRATION_ID", "NANGO_BASE_URL", "NANGO_SECRET_KEY">>

\* os.environ.get(name): None when unset, else the (possibly empty) string
EnvValues(name) == {None, PStr(<<>>), S("<" \o name \o ">")}
Environments == {e \in [Range(EnvVars) -> UNION {EnvValues(n) : n \in Range(EnvVars)}] :
                    \A n \in Range(EnvVars) : e[n] \in EnvValues(n)}

\* all([...]) over the four values
AllSet(e) == \A n \in Range(EnvVars) : Truthy(e[n])

\* [var for var, val in [...] if not val], in the order of the literal list
RECURSIVE MissingFrom(_, _)
MissingFrom(e, names) ==
    IF Len(names) = 0 THEN <<>>
    ELSE (IF ~Truthy(e[names[1]]) THEN <<names[1]>> ELSE <<>>) \o MissingFrom(e, Tail(names))

\* a slip of the comprehension: `if val is None` instead of `if not val`
RECURSIVE UnsetFrom(_, _)
UnsetFrom(e, names) ==
    IF Len(names) = 0 THEN <<>>
    ELSE (IF e[names[1]] = None THEN <<names[1]>> ELSE <<>>) \o UnsetFrom(e, Tail(names))

missing_vars_unset_only(e) == UnsetFrom(e, EnvVars)

missing_vars(e) == MissingFrom(e, EnvVars)

\* the GET that get_connection_credentials sends to the broker
BrokerRequest(e) ==
    [url |-> e["NANGO_BASE_URL"].s \o <<"/connection/">> \o e["NANGO_CONNECTION_ID"].s,
     params |-> [provider_config_key |-> e["NANGO_INTEGRATION_ID"].s, refresh_token |-> <<"true">>],
     headers |-> [Authorization |-> <<"Bearer ">> \o e["NANGO_SECRET_KEY"].s]]

\* str(e) of the HTTPError that raise_for_status raises for a 4xx/5xx status
HTTPErrorText(resp) ==
    <<ToString(resp.status), IF resp.status < 500 THEN " Client Error: " ELSE " Server Error: ",
      resp.reason>>

\* Response.raise_for_status(): raises for 400 <= status < 600 only
RaisesForStatus(resp) == resp.status >= 400 /\ resp.status < 600

\* get_connection_credentials() when the broker answers resp
get_connection_credentials(e, resp) ==
    IF ~AllSet(e)
    THEN Raise("ValueError",
               <<"Missing required Nango environment variables: ">> \o Join(missing_vars(e), ", "))
    ELSE IF resp.net
    THEN Raise("ValueError", <<"Failed to get Nango credentials: ">> \o resp.cause)
    ELSE IF RaisesForStatus(resp)
    THEN Raise("ValueError", <<"Failed to get Nango credentials: ">> \o HTTPErrorText(resp))
    ELSE IF ~resp.body.json.ok
    THEN Raise("ValueError", <<"Failed to get Nango credentials: ">> \o resp.body.json.msg)
    ELSE Ok(resp.body.json.val)

\* the try body of get_airtable_token once the credentials are there
ExtractToken(credentials) ==
    LET hasCred == PyIn("credentials", credentials)
        inner == PyGetItem(credentials, "credentials")
        hasNested == IF inner.ok THEN PyIn("access_token", inner.val) ELSE inner
        hasFlat == PyIn("access_token", credentials)
    IN  IF ~hasCred.ok THEN hasCred
        ELSE IF hasCred.val /\ ~hasNested.ok THEN hasNested
        ELSE IF hasCred.val /\ hasNested.val THEN PyGetItem(inner.val, "access_token")
        ELSE IF ~hasFlat.ok THEN hasFlat
        ELSE IF hasFlat.val THEN PyGetItem(credentials, "access_token")
        ELSE Raise("ValueError", <<"No access_token found in Nango credentials response">>)

\* a slip of the except clause: the exception swallowed and None returned
get_airtable_token_swallow(e, resp) ==
    LET credentials == get_connection_credentials(e, resp)
        r == IF credentials.ok THEN ExtractToken(credentials.val) ELSE credentials
    IN  IF r.ok THEN r ELSE Ok(None)

\* get_airtable_token(): every exception is re-raised as ValueError, wrapped
get_airtable_token(e, resp) ==
    LET credentials == get_connection_credentials(e, resp)
        r == IF credentials.ok THEN ExtractToken(credentials.val) ELSE credentials
    IN  IF r.ok THEN r
        ELSE Raise("ValueError", <<"Failed to get authentication token from Nango: ">> \o r.msg)

\* whether the call reaches requests.get (line 50)
BrokerRequested(e) == AllSet(e)

---------------------------------------------------------------------------
(* Python dicts that are built by assignment: insertion-ordered key/value pairs *)

NewDict == <<>>
HasKey(d, k) == \E i \in 1..Len(d) : d[i].k = k
\* d[k] = v: a present key keeps its place and takes the new value
DictSet(d, k, v) ==
    IF HasKey(d, k)
    THEN [i \in 1..Len(d) |-> IF d[i].k = k THEN [k |-> k, v |-> v] ELSE d[i]]
    ELSE Append(d, [k |-> k, v |-> v])
DictGet(d, k) == d[CHOOSE i \in 1..Len(d) : d[i].k = k].v
Keys(d) == {d[i].k : i \in 1..Len(d)}

\* d after `for x in xs: d[k] = x`
RECURSIVE SetEach(_, _, _)
SetEach(d, k, xs) ==
    IF Len(xs) = 0 THEN d ELSE SetEach(DictSet(d, k, xs[1]), k, Tail(xs))

\* the query string requests builds from params: a list value gives one pair per
\* element, None is left out, every other value gives one pair with its str()
RECURSIVE EncodeValues(_, _)
EncodeValues(k, vs) ==
    IF Len(vs) = 0 THEN <<>>
    ELSE (IF vs[1].t = "None" THEN <<>> ELSE <<[k |-> k, v |-> PyStr(vs[1])]>>)
            \o EncodeValues(k, Tail(vs))

RECURSIVE EncodeParams(_)
EncodeParams(params) ==
    IF Len(params) = 0 THEN <<>>
    ELSE EncodeValues(params[1].k,
                      IF params[1].v.t = "list" THEN params[1].v.l ELSE <<params[1].v>>)
            \o EncodeParams(Tail(params))

---------------------------------------------------------------------------
(* The tools: each builds a request and hands it to handle_api_request *)

AIRTABLE_API_BASE == "https://api.airtable.com/v0"

Request(method, url, kwargs) == [method |-> method, url |-> url, kwargs |-> kwargs]

\* a slip of the key: the element index left out, as for "fields[]"
SortKeyNoIndex(i, key) == "sort[" \o key \o "]"

\* f"sort[{i}][{key}]"
SortKey(i, key) == "sort[" \o ToString(i) \o "][" \o key \o "]"

\* params after `for key, value in sort_obj.items(): params[f"sort[{i}][{key}]"] = value`
RECURSIVE SetSortItems(_, _, _)
SetSortItems(d, i, items) ==
    IF Len(items) = 0 THEN d
    ELSE SetSortItems(DictSet(d, SortKey(i, items[1].k), items[1].v), i, Tail(items))

\* params after `for i, sort_obj in enumerate(sort): ...`, from index i on
RECURSIVE SetSortFrom(_, _, _)
SetSortFrom(d, i, sort) ==
    IF Len(sort) = 0 THEN d
    ELSE SetSortFrom(SetSortItems(d, i, sort[1]), i + 1, Tail(sort))

\* `if v: params[k] = v`
SetIfTruthy(d, k, v) == IF Truthy(v) THEN DictSet(d, k, v) ELSE d
\* `if v is not None: data[k] = v`
SetIfNotNone(d, k, v) == IF v # None THEN DictSet(d, k, v) ELSE d

list_records(base_id, table, fields, filter_by_formula, max_records, page_size, sort, view, cell_format, time_zone, user_locale) ==
    LET p0 == NewDict
        p1 == IF Truthy(fields) THEN SetEach(p0, "fields[]", fields.l) ELSE p0
        p2 == SetIfTruthy(p1, "filterByFormula", filter_by_formula)
        p3 == SetIfTruthy(p2, "maxRecords", max_records)
        p4 == SetIfTruthy(p3, "pageSize", page_size)
        p5 == SetIfTruthy(p4, "view", view)
        p6 == SetIfTruthy(p5, "cellFormat", cell_format)
        p7 == SetIfTruthy(p6, "timeZone", time_zone)
        p8 == SetIfTruthy(p7, "userLocale", user_locale)
        p9 == IF Truthy(sort) THEN SetSortFrom(p8, 0, sort.l) ELSE p8
    IN  Request("GET", <<AIRTABLE_API_BASE, "/", base_id, "/", table>>, [params |-> p9])

\* a slip of the branch: `if fields:` instead of `elif fields:`
create_records_both(base_id, table, records, fields, typecast, return_fields_by_field_id) ==
    LET d0 == NewDict
        d1 == IF Truthy(records) THEN DictSet(d0, "records", records) ELSE d0
        d2 == IF Truthy(fields) THEN DictSet(d1, "fields", fields) ELSE d1
        d3 == SetIfNotNone(d2, "typecast", typecast)
        d4 == SetIfNotNone(d3, "returnFieldsByFieldId", return_fields_by_field_id)
    IN  Request("POST", <<AIRTABLE_API_BASE, "/", base_id, "/", table>>, [json |-> d4])

create_records(base_id, table, records, fields, typecast, return_fields_by_field_id) ==
    LET d0 == NewDict
        d1 == IF Truthy(records) THEN DictSet(d0, "records", records)
              ELSE IF Truthy(fields) THEN DictSet(d0, "fields", fields)
              ELSE d0
        d2 == SetIfNotNone(d1, "typecast", typecast)
        d3 == SetIfNotNone(d2, "returnFieldsByFieldId", return_fields_by_field_id)
    IN  Request("POST", <<AIRTABLE_API_BASE, "/", base_id, "/", table>>, [json |-> d3])

delete_multiple_records(base_id, table, record_ids) ==
    Request("DELETE", <<AIRTABLE_API_BASE, "/", base_id, "/", table>>,
            [params |-> DictSet(NewDict, "records[]", record_ids)])

get_users_by_id_or_email(enterprise_account_id, user_ids, emails, include) ==
    LET p0 == NewDict
        p1 == IF Truthy(user_ids) THEN SetEach(p0, "id[]", user_ids.l) ELSE p0
        p2 == IF Truthy(emails) THEN SetEach(p1, "email[]", emails.l) ELSE p1
        p3 == SetIfTruthy(p2, "include", include)
    IN  Request("GET", <<AIRTABLE_API_BASE, "/meta/enterpriseAccounts/",
                         enterprise_account_id, "/users">>, [params |-> p3])

\* the query string the remote API receives for a request
Query(req) == IF "params" \in DOMAIN req.kwargs THEN EncodeParams(req.kwargs.params) ELSE <<>>

---------------------------------------------------------------------------
(* get_headers and handle_api_request *)

\* a slip of get_headers: a module-level token kept from the last broker call of
\* any invocation and used instead of the token just fetched
get_headers_cached(token) ==
    [Authorization |-> <<"Bearer ">> \o PyStr(IF issued # None THEN issued ELSE token),
     ContentType |-> <<"application/json">>]

\* get_headers(), given the token get_airtable_token returned
get_headers(token) ==
    [Authorization |-> <<"Bearer ">> \o PyStr(token),
     ContentType |-> <<"application/json">>]

\* a slip of the call: a failed request sent a second time
RequestsSentRetrying(resp) == IF resp.net \/ RaisesForStatus(resp) THEN 2 ELSE 1

\* how many requests one requests.get / requests.request call of the program
\* sends for the answer resp: the call stands once in the code, in no loop
RequestsSent(resp) == 1

\* error_body.get('error', {}).get('message', str(error_body)): a value, or the
\* AttributeError of .get on something that is no dict
ErrorMessageOf(error_body) ==
    IF error_body.t # "dict"
    THEN Raise("AttributeError", <<"'", TypeName(error_body), "' object has no attribute 'get'">>)
    ELSE LET err == IF "error" \in DOMAIN error_body.d THEN error_body.d["error"] ELSE EmptyDict
         IN  IF err.t # "dict"
             THEN Raise("AttributeError", <<"'", TypeName(err), "' object has no attribute 'get'">>)
             ELSE IF "message" \in DOMAIN err.d THEN Ok(err.d["message"])
             ELSE Ok(PStr(PyStr(error_body)))

\* the except HTTPError clause: the message of the ValueError it raises
HTTPErrorDetail(resp) ==
    LET error_detail == <<"HTTP ", ToString(resp.status), ": ", resp.reason>>
        message == IF resp.body.json.ok THEN ErrorMessageOf(resp.body.json.val)
                   ELSE resp.body.json
    IN  IF message.ok
        THEN error_detail \o <<" - ">> \o PyStr(message.val)
        ELSE error_detail \o <<" - ">> \o resp.body.text

\* a slip of the except clauses: RequestException, the base class of HTTPError,
\* caught first, so that an error status is reported as a request failure
HandleResponseRequestFirst(resp) ==
    IF resp.net THEN Raise("ValueError", <<"Request failed: ">> \o resp.cause)
    ELSE IF RaisesForStatus(resp)
    THEN Raise("ValueError", <<"Request failed: ">> \o HTTPErrorText(resp))
    ELSE IF Len(resp.body.text) = 0 THEN Ok(PDict([success |-> PBool(TRUE)]))
    ELSE IF resp.body.json.ok THEN Ok(resp.body.json.val)
    ELSE Ok(PDict([raw_response |-> PStr(resp.body.text)]))

\* a slip of the success path: the empty-body test left out
HandleResponseNoEmptyTest(resp) ==
    IF resp.net THEN Raise("ValueError", <<"Request failed: ">> \o resp.cause)
    ELSE IF RaisesForStatus(resp) THEN Raise("ValueError", HTTPErrorDetail(resp))
    ELSE IF resp.body.json.ok THEN Ok(resp.body.json.val)
    ELSE Ok(PDict([raw_response |-> PStr(resp.body.text)]))

\* handle_api_request from requests.request on, for the answer resp
HandleResponse(resp) ==
    IF resp.net THEN Raise("ValueError", <<"Request failed: ">> \o resp.cause)
    ELSE IF RaisesForStatus(resp) THEN Raise("ValueError", HTTPErrorDetail(resp))
    ELSE IF Len(resp.body.text) = 0 THEN Ok(PDict([success |-> PBool(TRUE)]))
    ELSE IF resp.body.json.ok THEN Ok(resp.body.json.val)
    ELSE Ok(PDict([raw_response |-> PStr(resp.body.text)]))

\* get_headers() raised: the except Exception clause of handle_api_request
AuthFailure(r) == Raise("ValueError", <<"Unexpected error: ">> \o r.msg)

---------------------------------------------------------------------------
(* The token provider called directly: inputs and specification *)

NestedToken == S("tok123")
FlatToken == S("tok456")

\* what the broker may put under "credentials"
CredentialValues ==
    {PDict([access_token |-> NestedToken]), PDict([type |-> S("API_KEY")]),
     PStr(<<"no ", "access_token">>), S("opaque"),
     PList(<<S("access_token")>>), PList(<<>>), None, PInt(7)}

ObjectPayloads ==
    {PDict([k \in ks |-> IF k = "credentials" THEN c
                         ELSE IF k = "access_token" THEN FlatToken ELSE S("bar")]) :
        ks \in SUBSET {"credentials", "access_token", "foo"}, c \in CredentialValues}

NonObjectPayloads ==
    {None, PInt(7), PList(<<>>), PList(<<S("access_token")>>), S("access_token"), S("opaque")}

BrokerPayloads == ObjectPayloads \cup NonObjectPayloads

BrokerResponses ==
    {Response(200, "OK", JsonBody(p)) : p \in BrokerPayloads}
    \cup {Response(200, "OK", TextBody(<<"<html>">>)),
          Response(401, "Unauthorized", JsonBody(PDict([error |-> S("bad key")]))),
          Response(500, "Internal Server Error", TextBody(<<>>)),
          NetworkFailure(<<"Connection refused">>)}

NoCall == [fn |-> "none"]
NoResponse == [net |-> TRUE, cause |-> <<"not requested">>]

\* one direct call of fn; the broker is asked only when the configuration is complete
TokenCall(fn, resp, result) ==
    [fn |-> fn,
     requested |-> BrokerRequested(env),
     resp |-> IF BrokerRequested(env) THEN resp ELSE NoResponse,
     result |-> result]

CallGetConnectionCredentials ==
    /\ \E resp \in BrokerResponses :
          tokCall' = TokenCall("get_connection_credentials", resp,
                               get_connection_credentials(env, resp))
    /\ UNCHANGED <<env, encCall, inv, brokerToken, issued>>

CallGetAirtableToken ==
    /\ \E resp \in BrokerResponses :
          tokCall' = TokenCall("get_airtable_token", resp, get_airtable_token(env, resp))
    /\ UNCHANGED <<env, encCall, inv, brokerToken, issued>>

NoInvocations == <<>>

InitToken ==
    /\ env \in Environments
    /\ tokCall = NoCall
    /\ encCall = NoCall
    /\ inv = NoInvocations
    /\ brokerToken = NestedToken
    /\ issued = None

NextToken == CallGetConnectionCredentials \/ CallGetAirtableToken

SpecToken == InitToken /\ [][NextToken]_vars

---------------------------------------------------------------------------
(* Claims about the token provider, checked under SpecToken *)

\* the variables that are unset or empty in the environment
Omitted == {n \in Range(EnvVars) : env[n] = None \/ env[n] = PStr(<<>>)}
\* the variable names that occur in a message
NamedIn(msg) == {n \in Range(EnvVars) : \E i \in 1..Len(msg) : msg[i] = n}
\* how often a name occurs in a message
Occurrences(msg, n) == Cardinality({i \in 1..Len(msg) : msg[i] = n})

\* C1: whenever at least one of the four NANGO_* variables is unset or empty,
\* get_connection_credentials and get_airtable_token fail without asking the
\* broker, and the message names every omitted variable (once) and no present one.
C1_MissingVarsNamed ==
    (tokCall.fn # "none" /\ Omitted # {}) =>
        /\ ~tokCall.result.ok
        /\ ~tokCall.requested
        /\ tokCall.result.exc = "ValueError"
        /\ NamedIn(tokCall.result.msg) = Omitted
        /\ \A n \in Omitted : Occurrences(tokCall.result.msg, n) = 1
        /\ \E i \in 1..Len(tokCall.result.msg) :
              tokCall.result.msg[i] = "Missing required Nango environment variables: "

\* C1 witness: get_airtable_token has failed with the secret key unset and the
\* connection id empty, the other two variables present.
C1_Witness ==
    /\ tokCall.fn = "get_airtable_token"
    /\ env["NANGO_SECRET_KEY"] = None
    /\ env["NANGO_CONNECTION_ID"] = PStr(<<>>)
    /\ Omitted = {"NANGO_SECRET_KEY", "NANGO_CONNECTION_ID"}
    /\ ~tokCall.result.ok
    /\ tokCall.result.msg =
          <<"Failed to get authentication token from Nango: ",
            "Missing required Nango environment variables: ",
            "NANGO_CONNECTION_ID", ", ", "NANGO_SECRET_KEY">>

\* the broker answered get_airtable_token with a JSON payload
GotPayload ==
    /\ tokCall.fn = "get_airtable_token"
    /\ tokCall.requested
    /\ ~tokCall.resp.net
    /\ ~RaisesForStatus(tokCall.resp)
    /\ tokCall.resp.body.json.ok
Payload == tokCall.resp.body.json.val

\* the two accepted shapes, as paths of the JSON payload
IsObject(v) == v.t = "dict"
NestedPathExists(p) ==
    /\ IsObject(p)
    /\ "credentials" \in DOMAIN p.d
    /\ IsObject(p.d["credentials"])
    /\ "access_token" \in DOMAIN p.d["credentials"].d
FlatPathExists(p) == IsObject(p) /\ "access_token" \in DOMAIN p.d

NoTokenMessage ==
    <<"Failed to get authentication token from Nango: ",
      "No access_token found in Nango credentials response">>

\* C2 (as claimed): for every broker payload the nested credentials.access_token
\* is returned when that path exists, else the flat access_token when it exists,
\* else the call fails with the 'no access_token found' failure.
C2_ShapesInOrder ==
    GotPayload =>
        IF NestedPathExists(Payload)
        THEN tokCall.result = Ok(Payload.d["credentials"].d["access_token"])
        ELSE IF FlatPathExists(Payload)
        THEN tokCall.result = Ok(Payload.d["access_token"])
        ELSE ~tokCall.result.ok /\ tokCall.result.msg = NoTokenMessage

\* C2, restricted to the payloads on which the code agrees with the claim: JSON
\* objects whose "credentials" member, when present, is itself an object.
WellShaped(p) ==
    IsObject(p) /\ ("credentials" \in DOMAIN p.d => IsObject(p.d["credentials"]))
C2_ShapesInOrderWellShaped ==
    (GotPayload /\ WellShaped(Payload)) =>
        IF NestedPathExists(Payload)
        THEN tokCall.result = Ok(Payload.d["credentials"].d["access_token"])
        ELSE IF FlatPathExists(Payload)
        THEN tokCall.result = Ok(Payload.d["access_token"])
        ELSE ~tokCall.result.ok /\ tokCall.result.msg = NoTokenMessage

---------------------------------------------------------------------------
(* The tools called with bounded inputs: specification SpecEncode *)

MaxListLen == 2
MaxSortLen == 2

SeqsUpTo(X, n) == UNION {[1..k -> X] : k \in 0..n}
\* Optional[List[str]]: None or a list, possibly empty
OptLists(X, n) == {None} \cup {PList(l) : l \in SeqsUpTo(X, n)}

FieldNames == {S("Name"), S("Status")}
UserIds == {S("usr1"), S("usr2")}
Emails == {S("a@x.io"), S("b@x.io")}
RecordIds == {S("rec1"), S("rec2")}

Item(k, v) == [k |-> k, v |-> v]
\* Dict[str, str] sort objects, with their key order
SortObjects ==
    {<<>>,
     <<Item("field", S("Name"))>>,
     <<Item("field", S("Name")), Item("direction", S("asc"))>>,
     <<Item("direction", S("desc")), Item("field", S("Status"))>>}
SortLists == {None} \cup {PList(l) : l \in SeqsUpTo(SortObjects, MaxSortLen)}

RecordBatches ==
    {None, PList(<<>>),
     PList(<<PDict([fields |-> PDict([Name |-> S("a")])])>>),
     PList(<<PDict([fields |-> PDict([Name |-> S("a")])]),
             PDict([fields |-> PDict([Name |-> S("b")])])>>)}
FieldMaps == {None, EmptyDict, PDict([Name |-> S("c")])}
OptBools == {None, PBool(TRUE), PBool(FALSE)}

\* one tool call per behaviour: the tools keep no state between calls
EncCall(fn, args, req) == [fn |-> fn, args |-> args, req |-> req, query |-> Query(req)]

CallListRecords ==
    /\ encCall = NoCall
    /\ \E fields \in OptLists(FieldNames, MaxListLen), sort \in SortLists,
          view \in {None, S("Grid")}, max_records \in {None, PInt(0), PInt(10)} :
          encCall' = EncCall("list_records",
                             [fields |-> fields, sort |-> sort, view |-> view,
                              max_records |-> max_records],
                             list_records("appB", "Tasks", fields, None, max_records, None,
                                          sort, view, None, None, None))
    /\ UNCHANGED <<env, tokCall, inv, brokerToken, issued>>

CallCreateRecords ==
    /\ encCall = NoCall
    /\ \E records \in RecordBatches, fields \in FieldMaps,
          typecast \in OptBools, rf \in {None, PBool(FALSE)} :
          encCall' = EncCall("create_records",
                             [records |-> records, fields |-> fields, typecast |-> typecast,
                              return_fields_by_field_id |-> rf],
                             create_records("appB", "Tasks", records, fields, typecast, rf))
    /\ UNCHANGED <<env, tokCall, inv, brokerToken, issued>>

CallDeleteMultipleRecords ==
    /\ encCall = NoCall
    /\ \E l \in SeqsUpTo(RecordIds, MaxListLen) :
          encCall' = EncCall("delete_multiple_records", [record_ids |-> PList(l)],
                             delete_multiple_records("appB", "Tasks", PList(l)))
    /\ UNCHANGED <<env, tokCall, inv, brokerToken, issued>>

CallGetUsersByIdOrEmail ==
    /\ encCall = NoCall
    /\ \E user_ids \in OptLists(UserIds, MaxListLen), emails \in OptLists(Emails, MaxListLen),
          include \in {None, PList(<<S("collaborations")>>)} :
          encCall' = EncCall("get_users_by_id_or_email",
                             [user_ids |-> user_ids, emails |-> emails, include |-> include],
                             get_users_by_id_or_email("entA", user_ids, emails, include))
    /\ UNCHANGED <<env, tokCall, inv, brokerToken, issued>>

CompleteEnv == [n \in Range(EnvVars) |-> S("<" \o n \o ">")]

InitEncode ==
    /\ env = CompleteEnv
    /\ tokCall = NoCall
    /\ encCall = NoCall
    /\ inv = NoInvocations
    /\ brokerToken = NestedToken
    /\ issued = None

NextEncode ==
    \/ CallListRecords
    \/ CallCreateRecords
    \/ CallDeleteMultipleRecords
    \/ CallGetUsersByIdOrEmail

SpecEncode == InitEncode /\ [][NextEncode]_vars

---------------------------------------------------------------------------
(* Claims about the encoders, checked under SpecEncode *)

\* the values of the query entries with key k, in order
ValuesOf(query, k) ==
    LET sel == SelectSeq(query, LAMBDA e : e.k = k)
    IN  [i \in 1..Len(sel) |-> sel[i].v]
\* the elements of an optional list of str, in order
Texts(v) == IF v = None THEN <<>> ELSE [i \in 1..Len(v.l) |-> v.l[i].s]

\* C3 (as claimed): a list-valued query parameter of n elements is sent as n
\* entries name[], one per element, in input order: fields of list_records,
\* user_ids and emails of get_users_by_id_or_email, record_ids of
\* delete_multiple_records.
C3_ListParamsRepeated ==
    /\ encCall.fn = "list_records" =>
          ValuesOf(encCall.query, "fields[]") = Texts(encCall.args.fields)
    /\ encCall.fn = "get_users_by_id_or_email" =>
          /\ ValuesOf(encCall.query, "id[]") = Texts(encCall.args.user_ids)
          /\ ValuesOf(encCall.query, "email[]") = Texts(encCall.args.emails)
    /\ encCall.fn = "delete_multiple_records" =>
          ValuesOf(encCall.query, "records[]") = Texts(encCall.args.record_ids)

\* What the code does for C3: delete_multiple_records sends every element, the
\* loops of list_records and get_users_by_id_or_email keep the last element only.
C3_AsCoded ==
    LET LastOnly(v) == IF Truthy(v) THEN <<v.l[Len(v.l)].s>> ELSE <<>>
    IN  /\ encCall.fn = "list_records" =>
              ValuesOf(encCall.query, "fields[]") = LastOnly(encCall.args.fields)
        /\ encCall.fn = "get_users_by_id_or_email" =>
              /\ ValuesOf(encCall.query, "id[]") = LastOnly(encCall.args.user_ids)
              /\ ValuesOf(encCall.query, "email[]") = LastOnly(encCall.args.emails)
        /\ encCall.fn = "delete_multiple_records" =>
              ValuesOf(encCall.query, "records[]") = Texts(encCall.args.record_ids)

\* the top-level keys of the JSON body of create_records
BodyKeys == Keys(encCall.req.kwargs.json)
Supplied(v) == v # None

\* C9 (as claimed): the body of create_records has exactly one of the keys
\* records and fields, and records (not fields) when the caller supplies both.
C9_ExactlyOneForm ==
    encCall.fn = "create_records" =>
        /\ ("records" \in BodyKeys) # ("fields" \in BodyKeys)
        /\ (Supplied(encCall.args.records) /\ Supplied(encCall.args.fields)) =>
              ("records" \in BodyKeys /\ "fields" \notin BodyKeys)

\* C9 (amended): the body never has both keys; it has records, holding the batch
\* as given, exactly when a non-empty batch is supplied (also when fields is
\* supplied too); it has fields, holding the mapping as given, exactly when no
\* non-empty batch is supplied and a non-empty fields mapping is.
C9_AtMostOneForm ==
    encCall.fn = "create_records" =>
        LET body == encCall.req.kwargs.json
            batch == Truthy(encCall.args.records)
            single == Truthy(encCall.args.fields)
        IN  /\ ~("records" \in BodyKeys /\ "fields" \in BodyKeys)
            /\ "records" \in BodyKeys <=> batch
            /\ "fields" \in BodyKeys <=> (~batch /\ single)
            /\ batch => DictGet(body, "records") = encCall.args.records
            /\ (~batch /\ single) => DictGet(body, "fields") = encCall.args.fields

\* C9 witness: create_records was called with a non-empty batch and a non-empty
\* fields mapping, and the body carries records only.
C9_Witness ==
    /\ encCall.fn = "create_records"
    /\ Truthy(encCall.args.records)
    /\ Truthy(encCall.args.fields)
    /\ "records" \in BodyKeys
    /\ "fields" \notin BodyKeys

\* the key the claim gives entry `key` of element i (0-based)
C10_Key(i, key) == "sort[" \o ToString(i) \o "][" \o key \o "]"

\* the entries the claim expects for a sort list: element by element, key by key
RECURSIVE ExpectedSortFrom(_, _)
ExpectedSortFrom(i, sort) ==
    IF Len(sort) = 0 THEN <<>>
    ELSE [j \in 1..Len(sort[1]) |-> [k |-> C10_Key(i, sort[1][j].k), v |-> sort[1][j].v.s]]
            \o ExpectedSortFrom(i + 1, Tail(sort))
ExpectedSort(sort) == IF sort = None THEN <<>> ELSE ExpectedSortFrom(0, sort.l)

OtherListRecordsKeys ==
    {"fields[]", "filterByFormula", "maxRecords", "pageSize", "view", "cellFormat",
     "timeZone", "userLocale"}

\* C10: the query of list_records holds, after its other parameters, exactly the
\* entries sort[i][key]=value, one for every element index i and every key of
\* element i, in element order and key order; none is lost.
C10_SortEncoded ==
    encCall.fn = "list_records" =>
        /\ SelectSeq(encCall.query, LAMBDA e : e.k \notin OtherListRecordsKeys)
              = ExpectedSort(encCall.args.sort)
        /\ encCall.args.sort = PList(<<<<Item("field", S("Name")), Item("direction", S("asc"))>>>>) =>
              SelectSeq(encCall.query, LAMBDA e : e.k \notin OtherListRecordsKeys)
                = <<[k |-> "sort[0][field]", v |-> <<"Name">>],
                    [k |-> "sort[0][direction]", v |-> <<"asc">>]>>

\* C10 witness: list_records was called with two sort objects of two keys each,
\* in different key orders, and four sort entries were sent.
C10_Witness ==
    /\ encCall.fn = "list_records"
    /\ encCall.args.sort =
          PList(<<<<Item("field", S("Name")), Item("direction", S("asc"))>>,
                  <<Item("direction", S("desc")), Item("field", S("Status"))>>>>)
    /\ Len(SelectSeq(encCall.query, LAMBDA e : e.k \notin OtherListRecordsKeys)) = 4

---------------------------------------------------------------------------
(* handle_api_request as a process: its invocations, the broker, the remote API *)

NInv == 2

Tokens == {NestedToken, FlatToken}

NoHeaders == [Authorization |-> <<>>, ContentType |-> <<>>]
NoOutcome == [ok |-> FALSE, exc |-> "none", msg |-> <<>>]
NotSent == [sent |-> FALSE]

\* an invocation that has not begun
Idle ==
    [pc |-> "idle", req |-> NoCall, after |-> {}, brokerCalls |-> 0, apiCalls |-> 0,
     answer |-> NoResponse, headers |-> NoHeaders, wire |-> NotSent, resp |-> NoResponse,
     outcome |-> NoOutcome]

Finished == {j \in DOMAIN inv : inv[j].pc = "done"}

\* the answers the broker can give while it vends token tok, in the given shapes
BrokerAnswers(tok, shapes) ==
    {Response(200, "OK", JsonBody(PDict([credentials |-> PDict([access_token |-> tok])]))) :
        x \in shapes \cap {"nested"}}
    \cup {Response(200, "OK", JsonBody(PDict([access_token |-> tok]))) : x \in shapes \cap {"flat"}}
    \cup
    {Response(200, "OK", JsonBody(PDict([foo |-> S("bar")]))),
     Response(401, "Unauthorized", TextBody(<<>>)),
     NetworkFailure(<<"Connection refused">>)}

ListRequest ==
    list_records("appB", "Tasks", PList(<<S("Name")>>), None, None, None, None, None, None,
                 None, None)
CreateRequest ==
    create_records("appB", "Tasks", None, PDict([Name |-> S("c")]), None, None)

ErrorBody == JsonBody(PDict([error |-> PDict([message |-> S("Invalid field")])]))
RecordsBody == JsonBody(PDict([records |-> PList(<<>>)]))

\* the bodies the remote API may answer with
ApiBodies ==
    {TextBody(<<>>), TextBody(<<"plain text">>), RecordsBody, ErrorBody,
     JsonBody(PDict([error |-> PDict([type |-> S("INVALID")])])),
     JsonBody(PDict([error |-> S("NOT_FOUND")])),
     JsonBody(PDict([message |-> S("x")])),
     JsonBody(PList(<<PInt(1)>>)),
     JsonBody(None)}

ApiStatuses ==
    {<<200, "OK">>, <<204, "No Content">>, <<304, "Not Modified">>, <<400, "Bad Request">>,
     <<422, "Unprocessable Entity">>, <<500, "Internal Server Error">>}

ApiResponses ==
    {Response(st[1], st[2], b) : st \in ApiStatuses, b \in ApiBodies}
    \cup {NetworkFailure(<<"Read timed out">>)}

\* the answers used where invocations run concurrently
CoreApiResponses ==
    {Response(200, "OK", RecordsBody), Response(200, "OK", TextBody(<<"plain text">>)),
     Response(422, "Unprocessable Entity", ErrorBody), NetworkFailure(<<"Read timed out">>)}

\* headers.update(kwargs.pop('headers')) when the caller passed headers
MergedHeaders(headers, kwargs) ==
    IF "headers" \in DOMAIN kwargs
    THEN [h \in DOMAIN headers \cup DOMAIN kwargs.headers |->
            IF h \in DOMAIN kwargs.headers THEN kwargs.headers[h] ELSE headers[h]]
    ELSE headers

\* a tool calls handle_api_request(req)
Invoke(i, Reqs) ==
    /\ inv[i].pc = "idle"
    /\ \E req \in Reqs :
          inv' = [inv EXCEPT ![i] = [@ EXCEPT !.pc = "auth", !.req = req, !.after = Finished]]
    /\ UNCHANGED <<env, tokCall, encCall, brokerToken, issued>>

\* headers = get_headers(): the configuration check, the broker call, the token
Authenticate(i, shapes) ==
    /\ inv[i].pc = "auth"
    /\ \E answer \in BrokerAnswers(brokerToken, shapes) :
          LET requested == BrokerRequested(env)
              r == get_airtable_token(env, answer)
          IN  /\ inv' = [inv EXCEPT ![i] =
                    [@ EXCEPT !.pc = IF r.ok THEN "send" ELSE "done",
                              !.answer = IF requested THEN answer ELSE NoResponse,
                              !.brokerCalls = @ + (IF requested THEN RequestsSent(answer) ELSE 0),
                              !.headers = IF r.ok THEN MergedHeaders(get_headers(r.val), inv[i].req.kwargs)
                                          ELSE NoHeaders,
                              !.outcome = IF r.ok THEN NoOutcome ELSE AuthFailure(r)]]
              /\ issued' = IF requested /\ r.ok THEN r.val ELSE issued
    /\ UNCHANGED <<env, tokCall, encCall, brokerToken>>

\* requests.request(method, url, headers=headers, **kwargs) and what follows it
Send(i, Resps) ==
    /\ inv[i].pc = "send"
    /\ \E resp \in Resps :
          inv' = [inv EXCEPT ![i] =
                    [@ EXCEPT !.pc = "done",
                              !.apiCalls = @ + RequestsSent(resp),
                              !.wire = [sent |-> TRUE, req |-> inv[i].req, headers |-> inv[i].headers],
                              !.resp = resp,
                              !.outcome = HandleResponse(resp)]]
    /\ UNCHANGED <<env, tokCall, encCall, brokerToken, issued>>

\* the broker refreshes the token of the connection
RotateToken ==
    /\ \E t \in Tokens \ {brokerToken} : brokerToken' = t
    /\ UNCHANGED <<env, tokCall, encCall, inv, issued>>

Init ==
    /\ env \in Environments
    /\ tokCall = NoCall
    /\ encCall = NoCall
    /\ inv = [i \in 1..NInv |-> Idle]
    /\ brokerToken = NestedToken
    /\ issued = None

Next ==
    \/ \E i \in DOMAIN inv : Invoke(i, {ListRequest})
    \/ \E i \in DOMAIN inv : Authenticate(i, {"nested"})
    \/ \E i \in DOMAIN inv : Send(i, CoreApiResponses)
    \/ RotateToken

\* invocations of handle_api_request running concurrently
Spec == Init /\ [][Next]_vars

InitClassify ==
    /\ env \in Environments
    /\ tokCall = NoCall
    /\ encCall = NoCall
    /\ inv = [i \in {1} |-> Idle]
    /\ brokerToken = NestedToken
    /\ issued = None

NextClassify ==
    \/ Invoke(1, {ListRequest, CreateRequest})
    \/ Authenticate(1, {"nested", "flat"})
    \/ Send(1, ApiResponses)
    \/ RotateToken

\* one invocation of handle_api_request, with every answer of the remote API
SpecClassify == InitClassify /\ [][NextClassify]_vars

---------------------------------------------------------------------------
(* Claims about handle_api_request for one invocation, checked under SpecClassify *)

\* invocation i has received an HTTP response from the remote API
Answered(i) == inv[i].wire.sent /\ ~inv[i].resp.net
Is2xx(resp) == resp.status >= 200 /\ resp.status <= 299
\* the body is JSON with a nested error.message
HasErrorMessage(body) ==
    /\ body.json.ok
    /\ IsObject(body.json.val)
    /\ "error" \in DOMAIN body.json.val.d
    /\ IsObject(body.json.val.d["error"])
    /\ "message" \in DOMAIN body.json.val.d["error"].d
Contains(msg, chunk) == \E k \in 1..Len(msg) : msg[k] = chunk

\* C4 (as claimed): a non-2xx response never gives a success outcome, also with an
\* empty body, and when its body is JSON with a nested error.message the failure
\* message is "HTTP {status}: {reason} - {error.message}"; 422 with
\* {"error": {"message": "Invalid field"}} gives a message with 422 and Invalid field.
C4_NonSuccessStatusFails ==
    \A i \in DOMAIN inv :
        (Answered(i) /\ ~Is2xx(inv[i].resp)) =>
            /\ ~inv[i].outcome.ok
            /\ HasErrorMessage(inv[i].resp.body) =>
                  inv[i].outcome.msg =
                      <<"HTTP ", ToString(inv[i].resp.status), ": ", inv[i].resp.reason, " - ">>
                          \o PyStr(inv[i].resp.body.json.val.d["error"].d["message"])
            /\ (inv[i].resp.status = 422 /\ inv[i].resp.body = ErrorBody) =>
                  Contains(inv[i].outcome.msg, "422") /\ Contains(inv[i].outcome.msg, "Invalid field")

\* What the code does for C4: the same, for the statuses 400 to 599 only.
C4_ErrorStatusFails ==
    \A i \in DOMAIN inv :
        (Answered(i) /\ inv[i].resp.status >= 400 /\ inv[i].resp.status <= 599) =>
            /\ ~inv[i].outcome.ok
            /\ HasErrorMessage(inv[i].resp.body) =>
                  inv[i].outcome.msg =
                      <<"HTTP ", ToString(inv[i].resp.status), ": ", inv[i].resp.reason, " - ">>
                          \o PyStr(inv[i].resp.body.json.val.d["error"].d["message"])

\* C5: a 2xx response never gives a failure; its outcome is {"success": true} for
\* an empty body, the parsed value for a non-empty JSON body, and
\* {"raw_response": text} for a non-empty body that is not JSON.
C5_SuccessOutcomes ==
    \A i \in DOMAIN inv :
        (Answered(i) /\ Is2xx(inv[i].resp)) =>
            LET body == inv[i].resp.body
            IN  /\ inv[i].pc = "done"
                /\ inv[i].outcome.ok
                /\ body.text = <<>> => inv[i].outcome.val = PDict([success |-> PBool(TRUE)])
                /\ (body.text # <<>> /\ body.json.ok) => inv[i].outcome.val = body.json.val
                /\ (body.text # <<>> /\ ~body.json.ok) =>
                      inv[i].outcome.val = PDict([raw_response |-> PStr(body.text)])

\* C5 witness: a 204 with an empty body has been classified as {"success": true}.
C5_Witness ==
    /\ Answered(1)
    /\ inv[1].resp = Response(204, "No Content", TextBody(<<>>))
    /\ inv[1].outcome = Ok(PDict([success |-> PBool(TRUE)]))

---------------------------------------------------------------------------
(* Claims about invocations that follow or overlap each other, checked under Spec *)

\* the token in the broker's answer to invocation i
OwnToken(i) ==
    LET p == inv[i].answer.body.json.val
    IN  IF "credentials" \in DOMAIN p.d THEN p.d["credentials"].d["access_token"]
        ELSE p.d["access_token"]
Succeeded(i) == inv[i].pc = "done" /\ inv[i].outcome.ok

\* C6: every successful invocation has called the broker exactly once and has
\* sent, as bearer token, the token of its own broker answer: no token is kept
\* from an earlier invocation.
C6_NoTokenCaching ==
    \A i \in DOMAIN inv :
        Succeeded(i) =>
            /\ inv[i].brokerCalls = 1
            /\ inv[i].wire.sent
            /\ inv[i].wire.headers.Authorization = <<"Bearer ">> \o OwnToken(i).s

\* C6 witness: invocation 2 began after invocation 1 had finished, the broker's
\* token changed in between, both succeeded, and each sent the token of its time.
C6_Witness ==
    /\ Succeeded(1) /\ Succeeded(2)
    /\ inv[1].after = {} /\ inv[2].after = {1}
    /\ inv[1].brokerCalls = 1 /\ inv[2].brokerCalls = 1
    /\ inv[1].wire.headers.Authorization = <<"Bearer ", "tok123">>
    /\ inv[2].wire.headers.Authorization = <<"Bearer ", "tok456">>

\* the broker request of invocation i failed / its remote request failed
BrokerFailed(i) ==
    /\ inv[i].brokerCalls > 0
    /\ inv[i].answer.net \/ RaisesForStatus(inv[i].answer) \/ ~inv[i].answer.body.json.ok
RemoteFailed(i) == inv[i].wire.sent /\ (inv[i].resp.net \/ RaisesForStatus(inv[i].resp))

Alone(e, answer, resp) ==
    LET r == get_airtable_token(e, answer)
    IN  IF r.ok THEN HandleResponse(resp) ELSE AuthFailure(r)

OwnResult(i) ==
    /\ inv[i].pc = "done" => inv[i].outcome = Alone(env, inv[i].answer, inv[i].resp)
    /\ inv[i].wire.sent =>
          /\ inv[i].wire.req = inv[i].req
          /\ inv[i].wire.headers.Authorization = <<"Bearer ">> \o OwnToken(i).s

\* a step changes the record of at most one invocation
OneAtATime == \A i, j \in DOMAIN inv : (i # j /\ inv[i]' # inv[i]) => inv[j]' = inv[j]

\* C8: under every interleaving each invocation sends its own request with the
\* token of its own broker answer and ends with the outcome it would have alone
\* with its answers, and no step of one invocation changes another.
C8_Independent == [](\A i \in DOMAIN inv : OwnResult(i)) /\ [][OneAtATime]_vars

\* C8 witness: two invocations overlapped (neither began after the other had
\* finished), fetched different tokens, and ended differently, each on its own.
C8_Witness ==
    /\ inv[1].pc = "done" /\ inv[2].pc = "done"
    /\ inv[1].after = {} /\ inv[2].after = {}
    /\ inv[1].wire.sent /\ inv[2].wire.sent
    /\ OwnToken(1) # OwnToken(2)
    /\ inv[1].outcome.ok /\ ~inv[2].outcome.ok

---------------------------------------------------------------------------
(* Claims about the failures of handle_api_request, checked under SpecClassify *)

Failed(i) == inv[i].pc = "done" /\ ~inv[i].outcome.ok
FailureKinds == {"Request failed: ", "HTTP ", "Unexpected error: "}
\* the kinds whose prefix opens the failure message of invocation i
KindsOf(i) == {k \in FailureKinds : Len(inv[i].outcome.msg) > 0 /\ inv[i].outcome.msg[1] = k}

\* C11: a network-level failure of the remote request gives the failure
\* "Request failed: <cause>"; an error status gives a message opening with
\* "HTTP ", a failure before the request one opening with "Unexpected error: ";
\* every failure message opens with exactly one of the three prefixes.
C11_RequestFailureKind ==
    \A i \in DOMAIN inv :
        Failed(i) =>
            /\ Cardinality(KindsOf(i)) = 1
            /\ (inv[i].wire.sent /\ inv[i].resp.net) <=> KindsOf(i) = {"Request failed: "}
            /\ (inv[i].wire.sent /\ inv[i].resp.net) =>
                  inv[i].outcome.msg = <<"Request failed: ">> \o inv[i].resp.cause
            /\ (inv[i].wire.sent /\ ~inv[i].resp.net) <=> KindsOf(i) = {"HTTP "}
            /\ ~inv[i].wire.sent <=> KindsOf(i) = {"Unexpected error: "}

\* C11 witness: the remote request timed out and the invocation failed with
\* "Request failed: Read timed out".
C11_Witness ==
    /\ Failed(1)
    /\ inv[1].wire.sent
    /\ inv[1].resp = NetworkFailure(<<"Read timed out">>)
    /\ inv[1].outcome.msg = <<"Request failed: ", "Read timed out">>

\* the detail part of an "HTTP {status}: {reason} - {detail}" message
DetailOf(i) == SubSeq(inv[i].outcome.msg, 6, Len(inv[i].outcome.msg))
\* invocation i failed on the status of the remote API's answer
StatusFailure(i) == Failed(i) /\ Answered(i) /\ ~Is2xx(inv[i].resp)

\* C12 (as claimed): in the failure for a non-2xx answer whose body parses as JSON
\* without a nested error.message, the detail is the whole parsed body, str(body);
\* the raw response text is the detail only when the body does not parse as JSON.
C12_DetailFallsBackToParsedBody ==
    \A i \in DOMAIN inv :
        StatusFailure(i) =>
            LET body == inv[i].resp.body
            IN  /\ (body.json.ok /\ ~HasErrorMessage(body)) =>
                      DetailOf(i) = PyStr(body.json.val)
                /\ ~body.json.ok => DetailOf(i) = body.text

\* What the code does for C12: the parsed body is the detail when the body is an
\* object whose "error" member is absent or an object without "message"; for
\* every other JSON body the .get chain raises and the detail is the raw text.
GetChainWorks(v) ==
    IsObject(v) /\ ("error" \in DOMAIN v.d => IsObject(v.d["error"]))
C12_AsCoded ==
    \A i \in DOMAIN inv :
        StatusFailure(i) =>
            LET body == inv[i].resp.body
            IN  /\ (body.json.ok /\ ~HasErrorMessage(body) /\ GetChainWorks(body.json.val)) =>
                      DetailOf(i) = PyStr(body.json.val)
                /\ (body.json.ok /\ ~GetChainWorks(body.json.val)) => DetailOf(i) = body.text
                /\ ~body.json.ok => DetailOf(i) = body.text

---------------------------------------------------------------------------
(* Claim about the order of authentication and the remote call, checked under Spec *)

\* the broker's answer to invocation i carries a token in an accepted shape
TokenExtracted(i) ==
    /\ inv[i].brokerCalls = 1
    /\ ~inv[i].answer.net
    /\ ~RaisesForStatus(inv[i].answer)
    /\ inv[i].answer.body.json.ok
    /\ NestedPathExists(inv[i].answer.body.json.val) \/ FlatPathExists(inv[i].answer.body.json.val)
\* invocation i is past get_headers()
PastAuth(i) == inv[i].pc \in {"send", "done"}
AuthPrefix == <<"Unexpected error: ", "Failed to get authentication token from Nango: ">>
\* the message of invocation i is AuthPrefix followed by a text with the chunks of cause
CarriesCause(i, cause) ==
    /\ SubSeq(inv[i].outcome.msg, 1, 2) = AuthPrefix
    /\ \A k \in 1..Len(cause) : Contains(inv[i].outcome.msg, cause[k])

AuthFirstState(i) ==
    /\ inv[i].wire.sent => TokenExtracted(i)
    /\ inv[i].pc = "send" => TokenExtracted(i)
    /\ (PastAuth(i) /\ Omitted # {}) =>
          /\ inv[i].brokerCalls = 0 /\ inv[i].apiCalls = 0 /\ ~inv[i].wire.sent
          /\ Failed(i)
          /\ CarriesCause(i, <<"Missing required Nango environment variables: ">>)
          /\ NamedIn(inv[i].outcome.msg) = Omitted
    /\ (PastAuth(i) /\ Omitted = {} /\ ~TokenExtracted(i)) =>
          /\ inv[i].brokerCalls = 1 /\ inv[i].apiCalls = 0 /\ ~inv[i].wire.sent
          /\ Failed(i)
          /\ CarriesCause(i,
                IF inv[i].answer.net THEN inv[i].answer.cause
                ELSE IF RaisesForStatus(inv[i].answer)
                THEN <<ToString(inv[i].answer.status), inv[i].answer.reason>>
                ELSE IF ~inv[i].answer.body.json.ok THEN inv[i].answer.body.json.msg
                ELSE <<"No access_token found in Nango credentials response">>)

\* the remote request of invocation i goes out in a step that starts after its
\* own broker call has given a token
AuthFirstStep ==
    \A i \in DOMAIN inv :
        (~inv[i].wire.sent /\ inv[i].wire.sent') =>
            /\ inv[i].pc = "send"
            /\ TokenExtracted(i)
            /\ inv[i].wire.headers'.Authorization = <<"Bearer ">> \o OwnToken(i).s

\* C13: the remote request of an invocation is sent only after its own broker
\* call succeeded and a token was extracted; with an incomplete configuration
\* neither the broker nor the remote API gets a request; when the broker call or
\* the extraction fails the remote API gets none and the invocation fails with a
\* message that carries the authentication cause.
C13_AuthenticationFirst == [](\A i \in DOMAIN inv : AuthFirstState(i)) /\ [][AuthFirstStep]_vars

\* C13 witness: invocation 1 ended on a 401 of the broker without a remote
\* request, invocation 2 sent its remote request after its broker call.
C13_Witness ==
    /\ Failed(1) /\ inv[1].answer = Response(401, "Unauthorized", TextBody(<<>>))
    /\ inv[1].brokerCalls = 1 /\ inv[1].apiCalls = 0 /\ ~inv[1].wire.sent
    /\ inv[2].wire.sent /\ TokenExtracted(2) /\ inv[2].apiCalls = 1

============================================================================
